---- MODULE Spec2Model ----
(***************************************************************************)
(* A model of partners.cc: main() builds the parameter map, initialises    *)
(* the agents, and simulate() runs the timesteps (shuffle, prevalence,     *)
(* per-agent infection / stage-advance / age events, report).              *)
(*                                                                         *)
(* Reals are modelled on a grid: a probability-like value is k/Q, a        *)
(* uniform draw in [0,1) is k/Q with k < Q, a prevalence is the exact      *)
(* fraction num/den (den = 0 is the IEEE quotient 0.0/0, NaN).  Ages and   *)
(* the time step are whole numbers of one time unit.                       *)
(***************************************************************************)
EXTENDS Integers, Sequences, FiniteSets, TLC

\* ------------------------------------------------------------- bounds
\* Population sizes 1..MaxAgents (main() fixes 10000).
MaxAgents == 2
\* NUM_YEARS in 0..MaxNumYears and TIME_STEP in 1..MaxTimeStep time units.
MaxNumYears == 2
MaxTimeStep == 2
\* Initial ages AGE_LOW..AGE_LOW + MaxAgeSpread.
MaxAgeSpread == 0
\* At most MaxMissing keys absent from the parameter map.
MaxMissing == 1
\* LEAVE_ACUTE_INFECTION in 0..MaxLeave, in units of 1/Q.
MaxLeave == 1
\* The grid of the probability-like reals: k/Q.
Q == 2
\* Geometric variates 0..MaxGeometric (beyond the clamp at MAX_STAGE).
MaxGeometric == 6

\* ------------------------------------------------- program constants
MALE == 0
FEMALE == 1
MAX_STAGE == 5
AGE_LOW == 15
START_2015 == 2015

\* A vector slot that holds no agent yet.
NULL == -1

Keys ==
  { "NUM_YEARS", "TIME_STEP", "START_DATE",
    "MEAN_TIME_UNTIL_PARTNER", "MEAN_PARTNERSHIP_TIME", "MEAN_TIME_CONCURRENT",
    "MEAN_TIME_SEX", "PREFERENCE_FIFS", "MEAN_RISK_HET_MALE_SEX",
    "MEAN_RISK_HET_FEMALE_SEX", "LEAVE_ACUTE_INFECTION" }

\* The values a configuration may give a key (main() sets one of them).
\* A mean risk is 0 or positive (1); the mean durations are positive.
KeyValues(k) ==
  CASE k = "NUM_YEARS" -> 0..MaxNumYears
    [] k = "TIME_STEP" -> 1..MaxTimeStep
    [] k = "START_DATE" -> {START_2015}
    [] k = "MEAN_RISK_HET_MALE_SEX" -> {0, 1}
    [] k = "MEAN_RISK_HET_FEMALE_SEX" -> {0, 1}
    [] k = "LEAVE_ACUTE_INFECTION" -> 0..MaxLeave
    [] OTHER -> {1}

Min(a, b) == IF a < b THEN a ELSE b

VARIABLES
  parameters,   \* ParameterMap: a function from the keys present to values
  absent,       \* history: the keys the map lacked when the run started
  pc,           \* position in main()
  agents,       \* AgentVector: the vector of agent pointers, in vector order
  heap,         \* the Agent objects, by pointer (= the id init() gave)
  initial_age,  \* history: the age init() drew for each agent
  sim,          \* simulate()'s locals read from the map at entry
  i,            \* simulate()'s loop counter
  p,            \* simulate()'s Prevalence p of the current timestep
  idx,          \* position of the inner for loop in the vector
  ev,           \* the event the agent at idx gets next
  rows,         \* dates of the report rows written so far
  summaries,    \* the stage counts of each summary() written so far
  calls,        \* history: calc_prevalence evaluations since the last shuffle
  passed        \* history: prevalences passed to simple_infection_event
                \*          since the last shuffle

vars ==
  << parameters, absent, pc, agents, heap, initial_age, sim, i, p, idx, ev,
     rows, summaries, calls, passed >>

\* ------------------------------------------------------ ParameterMap
\* parameters.at(k) throws std::out_of_range when k is absent.
Has(k) == k \in DOMAIN parameters

At(k) == parameters[k]

\* ------------------------------------------------- random variates
\* sim::beta_distribution<>(2.0, b): a value of [0,1] whose mean is the
\* configured one: positive when the mean is, and only 0 when the mean is 0.
beta_distribution(mean) == IF mean = 0 THEN {0} ELSE 1..Q

\* std::uniform_real_distribution<double>(0.0, 1.0): k/Q, k < Q.
uniform_draws == 0..(Q - 1)

\* std::uniform_real_distribution<double>(15.0, 20.0)
age_draws == AGE_LOW..(AGE_LOW + MaxAgeSpread)

\* std::geometric_distribution<int>(0.9)
geometric_draws == 0..MaxGeometric

\* ------------------------------------------------------------ Agent
\* new Agent(): value-initialised, the partner vector empty.  The four
\* attributes no event reads (relationship_stickiness, concurrency,
\* sexual_drive, preference_fifs) are left out of the record; the lookups
\* init() makes for them are in InitKeys.
NewAgent ==
  [ id |-> 0, sex |-> MALE, age |-> 0, hiv |-> 0, alive |-> FALSE,
    partners |-> << >>, partner_forming_attribute |-> 0,
    force_infection_attribute |-> 0 ]

\* The keys Agent::init looks up for an agent of sex s.
InitKeys(s) ==
  { "MEAN_PARTNERSHIP_TIME", "TIME_STEP", "MEAN_TIME_UNTIL_PARTNER",
    "MEAN_TIME_CONCURRENT", "MEAN_TIME_SEX", "PREFERENCE_FIFS" }
  \cup (IF s = MALE THEN {"MEAN_RISK_HET_MALE_SEX"}
                    ELSE {"MEAN_RISK_HET_FEMALE_SEX"})

RiskKey(s) ==
  IF s = MALE THEN "MEAN_RISK_HET_MALE_SEX" ELSE "MEAN_RISK_HET_FEMALE_SEX"

\* init() that also enters the previous agent in the new agent's partner
\* vector, without the entry in the other direction.
AgentInit_one_sided(n, s, a, g, pf, f) ==
  [ id |-> n, sex |-> s, age |-> a, hiv |-> Min(g, MAX_STAGE),
    alive |-> TRUE, partners |-> IF n > 0 THEN <<n - 1>> ELSE << >>,
    partner_forming_attribute |-> pf, force_infection_attribute |-> f ]

\* Agent::init: the agent after init(n, parameters) with the given draws.
AgentInit(n, s, a, g, pf, f) ==
  [ NewAgent EXCEPT !.id = n, !.sex = s, !.age = a,
                    !.hiv = Min(g, MAX_STAGE), !.alive = TRUE,
                    !.partner_forming_attribute = pf,
                    !.force_infection_attribute = f ]

\* ------------------------------------------------------- Prevalence
Count(S) == Cardinality(S)

\* A zero divisor answered with the quotient 0 instead of NaN.
Divide_guarded(num, den) ==
  [num |-> num, den |-> IF den = 0 THEN 1 ELSE den]

\* (double) a / b on unsigned counts: the exact fraction; a zero divisor
\* gives 0.0/0 = NaN and does not trap.
Divide(num, den) == [num |-> num, den |-> den]

\* calc_prevalence: the counts and the two quotients (den = 0: NaN).
calc_prevalence(v, h) ==
  LET alive(s) == {k \in 1..Len(v) : h[v[k]].alive /\ h[v[k]].sex = s}
      infected(s) == {k \in alive(s) : h[v[k]].hiv > 0}
  IN [ males_alive |-> Count(alive(MALE)),
       females_alive |-> Count(alive(FEMALE)),
       males_infected |-> Count(infected(MALE)),
       females_infected |-> Count(infected(FEMALE)),
       male_prevalence |->
         Divide(Count(infected(MALE)), Count(alive(MALE))),
       female_prevalence |->
         Divide(Count(infected(FEMALE)), Count(alive(FEMALE))) ]

IsNaN(x) == x.den = 0

NoPrevalence ==
  [ males_alive |-> 0, females_alive |-> 0, males_infected |-> 0,
    females_infected |-> 0, male_prevalence |-> [num |-> 0, den |-> 0],
    female_prevalence |-> [num |-> 0, den |-> 0] ]

\* unsigned hiv[6] of report() and summary(): agents per stage.
StageCounts(v, h) ==
  [st \in 0..MAX_STAGE |-> Count({k \in 1..Len(v) : h[v[k]].hiv = st})]

\* ----------------------------------------------------------- events
\* The comparison with <= in place of <.
LessOrEqualRisk(k, f, pf, prev) ==
  /\ ~IsNaN(prev)
  /\ k * Q * prev.den <= f * pf * prev.num

\* u < x for a draw u = k/Q and a risk x = f/Q * pf/Q * num/den; every
\* comparison with NaN is false.
LessThanRisk(k, f, pf, prev) ==
  /\ ~IsNaN(prev)
  /\ k * Q * prev.den < f * pf * prev.num

\* Agent::simple_infection_event with the uniform draw k/Q.
simple_infection_event(a, prevalence_males, prevalence_females, k) ==
  IF a.hiv = 0
    THEN LET prevalence ==
               IF a.sex = MALE THEN prevalence_females ELSE prevalence_males
         IN IF LessThanRisk(k, a.force_infection_attribute,
                            a.partner_forming_attribute, prevalence)
              THEN [a EXCEPT !.hiv = 1]
              ELSE a
    ELSE a

\* Every infected stage advanced, not only the primary infection.
stage_advance_event_any(a, leave, k) ==
  IF a.hiv >= 1 /\ k < leave THEN [a EXCEPT !.hiv = a.hiv + 1] ELSE a

\* The stage stepped down instead of up.
stage_advance_event_down(a, leave, k) ==
  IF a.hiv = 1 /\ k < leave THEN [a EXCEPT !.hiv = a.hiv - 1] ELSE a

\* Agent::stage_advance_event with the uniform draw k/Q (the draw is made
\* only when hiv = 1); prob_leave_acute_infection is leave/Q.
stage_advance_event(a, leave, k) ==
  IF a.hiv = 1 /\ k < leave THEN [a EXCEPT !.hiv = a.hiv + 1] ELSE a

\* Agent::age_event.
age_event(a, time_elapsed) == [a EXCEPT !.age = a.age + time_elapsed]

\* ------------------------------------------------------------- main
\* unsigned num_iterations = num_years / time_step (truncated).
NumIterations(num_years, time_step) == num_years \div time_step

\* The loop condition with <= in place of <.
LoopCond_inclusive(n, num_iterations) == n <= num_iterations

\* for (unsigned i = 0; i < num_iterations; ++i)
LoopCond(n, num_iterations) == n < num_iterations

AfterLoopTest(n, num_iterations) ==
  IF LoopCond(n, num_iterations) THEN "shuffle" ELSE "summary_end"

\* All orders std::shuffle can leave the vector in.
Shuffles(v) ==
  { w \in [1..Len(v) -> {v[k] : k \in 1..Len(v)}] :
      \A x, y \in 1..Len(v) : x # y => w[x] # w[y] }

\* The parameter maps a run may start with: every key present, or up to
\* MaxMissing of them absent, each key present with one of its values.
Choices ==
  [ NUM_YEARS : KeyValues("NUM_YEARS"), TIME_STEP : KeyValues("TIME_STEP"),
    MEAN_RISK_HET_MALE_SEX : KeyValues("MEAN_RISK_HET_MALE_SEX"),
    MEAN_RISK_HET_FEMALE_SEX : KeyValues("MEAN_RISK_HET_FEMALE_SEX"),
    LEAVE_ACUTE_INFECTION : KeyValues("LEAVE_ACUTE_INFECTION") ]

Chosen(k, c) ==
  IF k \in DOMAIN c THEN c[k] ELSE CHOOSE x \in KeyValues(k) : TRUE

Configurations ==
  { [k \in Keys \ missing |-> Chosen(k, c)] :
      missing \in {m \in SUBSET Keys : Cardinality(m) <= MaxMissing},
      c \in Choices }

Init ==
  /\ parameters \in Configurations
  /\ absent = Keys \ DOMAIN parameters
  /\ pc = "initialize_agents"
  /\ \E n \in 1..MaxAgents : agents = [k \in 1..n |-> NULL]
  /\ heap = [x \in {} |-> NewAgent]
  /\ initial_age = [x \in {} |-> 0]
  /\ sim = [num_iterations |-> 0, time_step |-> 0, start_date |-> 0,
            prob_leave_acute_infection |-> 0]
  /\ i = 0
  /\ p = NoPrevalence
  /\ idx = 0
  /\ ev = "none"
  /\ rows = << >>
  /\ summaries = << >>
  /\ calls = 0
  /\ passed = << >>

\* initialize_agents, one pass of its loop: new Agent() and init(i++) for
\* the first vector slot still empty.  A lookup of an absent key throws,
\* nothing catches it, and the process is terminated.
InitAgent ==
  /\ pc = "initialize_agents"
  /\ LET n == Cardinality(DOMAIN heap)
     IN \E s \in {MALE, FEMALE}, a \in age_draws, g \in geometric_draws :
          IF \A k \in InitKeys(s) : Has(k)
            THEN \E pf \in beta_distribution(At("MEAN_TIME_UNTIL_PARTNER")),
                    f \in beta_distribution(At(RiskKey(s))) :
                   /\ heap' = (n :> AgentInit(n, s, a, g, pf, f)) @@ heap
                   /\ initial_age' = (n :> a) @@ initial_age
                   /\ agents' = [agents EXCEPT ![n + 1] = n]
                   /\ pc' = IF n + 1 = Len(agents) THEN "summary_begin"
                                                   ELSE "initialize_agents"
            ELSE /\ pc' = "aborted"
                 /\ UNCHANGED <<heap, initial_age, agents>>
  /\ UNCHANGED <<parameters, absent, sim, i, p, idx, ev, rows, summaries, calls, passed>>

\* summary(0, "begin", agents, outputs)
SummaryBegin ==
  /\ pc = "summary_begin"
  /\ summaries' = Append(summaries, StageCounts(agents, heap))
  /\ pc' = "report_start"
  /\ UNCHANGED <<parameters, absent, agents, heap, initial_age, sim, i, p, idx, ev,
                 rows, calls, passed>>

\* report(parameters["START_DATE"], agents): operator[] inserts an absent
\* key with the value 0.0; report() evaluates calc_prevalence.
ReportStart ==
  /\ pc = "report_start"
  /\ parameters' = IF Has("START_DATE") THEN parameters
                   ELSE ("START_DATE" :> 0) @@ parameters
  /\ rows' = Append(rows, parameters'["START_DATE"])
  /\ calls' = calls + 1
  /\ pc' = "simulate"
  /\ UNCHANGED <<absent, agents, heap, initial_age, sim, i, p, idx, ev,
                 summaries, passed>>

\* simulate(), lines 307-313: the four lookups, num_iterations, and the
\* first test of the loop condition.
SimulateEnter ==
  /\ pc = "simulate"
  /\ IF /\ Has("NUM_YEARS") /\ Has("TIME_STEP")
        /\ Has("START_DATE") /\ Has("LEAVE_ACUTE_INFECTION")
       THEN /\ sim' = [num_iterations |->
                         NumIterations(At("NUM_YEARS"), At("TIME_STEP")),
                       time_step |-> At("TIME_STEP"),
                       start_date |-> At("START_DATE"),
                       prob_leave_acute_infection |->
                         At("LEAVE_ACUTE_INFECTION")]
            /\ i' = 0
            /\ pc' = AfterLoopTest(0, sim'.num_iterations)
       ELSE /\ pc' = "aborted"
            /\ UNCHANGED <<sim, i>>
  /\ UNCHANGED <<parameters, absent, agents, heap, initial_age, p, idx, ev, rows,
                 summaries, calls, passed>>

\* shuffle(agents.begin(), agents.end(), rng)
Shuffle ==
  /\ pc = "shuffle"
  /\ agents' \in Shuffles(agents)
  /\ calls' = 0
  /\ passed' = << >>
  /\ pc' = "calc_prevalence"
  /\ UNCHANGED <<parameters, absent, heap, initial_age, sim, i, p, idx, ev, rows,
                 summaries>>

\* Prevalence p = calc_prevalence(agents)
CalcPrevalence ==
  /\ pc = "calc_prevalence"
  /\ p' = calc_prevalence(agents, heap)
  /\ calls' = calls + 1
  /\ idx' = 1
  /\ ev' = "infection"
  /\ pc' = "events"
  /\ UNCHANGED <<parameters, absent, agents, heap, initial_age, sim, i, rows,
                 summaries, passed>>

\* The prevalences computed afresh for each agent.
PrevalenceArguments_fresh ==
  << calc_prevalence(agents, heap).male_prevalence,
     calc_prevalence(agents, heap).female_prevalence >>

\* The prevalences the loop body hands to simple_infection_event.
PrevalenceArguments == <<p.male_prevalence, p.female_prevalence>>

\* agent->simple_infection_event(p.male_prevalence, p.female_prevalence)
SimpleInfectionEvent ==
  /\ pc = "events" /\ ev = "infection"
  /\ LET a == agents[idx]
         arg == PrevalenceArguments
     IN IF heap[a].alive
          THEN /\ \E k \in uniform_draws :
                    heap' = [heap EXCEPT
                               ![a] = simple_infection_event(@, arg[1], arg[2], k)]
               /\ passed' = Append(passed, arg)
          ELSE UNCHANGED <<heap, passed>>
  /\ ev' = "stage_advance"
  /\ UNCHANGED <<parameters, absent, pc, agents, initial_age, sim, i, p, idx, rows,
                 summaries, calls>>

\* agent->stage_advance_event(prob_leave_acute_infection)
StageAdvanceEvent ==
  /\ pc = "events" /\ ev = "stage_advance"
  /\ LET a == agents[idx]
     IN IF heap[a].alive
          THEN \E k \in uniform_draws :
                 heap' = [heap EXCEPT
                            ![a] = stage_advance_event(
                                     @, sim.prob_leave_acute_infection, k)]
          ELSE UNCHANGED heap
  /\ ev' = "age"
  /\ UNCHANGED <<parameters, absent, pc, agents, initial_age, sim, i, p, idx, rows,
                 summaries, calls, passed>>

\* The inner loop stepping over every other agent.
NextIndex_skip(n) == n + 2

\* The next position of the inner for loop.
NextIndex(n) == n + 1

\* agent->age_event(time_step), and the step of the inner for loop.
AgeEvent ==
  /\ pc = "events" /\ ev = "age"
  /\ LET a == agents[idx]
     IN IF heap[a].alive
          THEN heap' = [heap EXCEPT ![a] = age_event(@, sim.time_step)]
          ELSE UNCHANGED heap
  /\ idx' = NextIndex(idx)
  /\ IF idx' > Len(agents)
       THEN pc' = "report" /\ ev' = "none"
       ELSE pc' = "events" /\ ev' = "infection"
  /\ UNCHANGED <<parameters, absent, agents, initial_age, sim, i, p, rows, summaries,
                 calls, passed>>

\* report(start_date + time_step * i, agents), ++i and the loop test.
Report ==
  /\ pc = "report"
  /\ rows' = Append(rows, sim.start_date + sim.time_step * i)
  /\ calls' = calls + 1
  /\ i' = i + 1
  /\ pc' = AfterLoopTest(i', sim.num_iterations)
  /\ UNCHANGED <<parameters, absent, agents, heap, initial_age, sim, p, idx, ev,
                 summaries, passed>>

\* summary(0, "end", agents, outputs)
SummaryEnd ==
  /\ pc = "summary_end"
  /\ summaries' = Append(summaries, StageCounts(agents, heap))
  /\ pc' = "destroy_agents"
  /\ UNCHANGED <<parameters, absent, agents, heap, initial_age, sim, i, p, idx, ev,
                 rows, calls, passed>>

\* destroy_agents(agents) and the return of main(); the vector keeps its
\* (now dangling) pointers and nothing reads them again.
DestroyAgents ==
  /\ pc = "destroy_agents"
  /\ pc' = "done"
  /\ UNCHANGED <<parameters, absent, agents, heap, initial_age, sim, i, p, idx, ev,
                 rows, summaries, calls, passed>>

Next ==
  \/ InitAgent
  \/ SummaryBegin
  \/ ReportStart
  \/ SimulateEnter
  \/ Shuffle
  \/ CalcPrevalence
  \/ SimpleInfectionEvent
  \/ StageAdvanceEvent
  \/ AgeEvent
  \/ Report
  \/ SummaryEnd
  \/ DestroyAgents

Spec == Init /\ [][Next]_vars

\* ------------------------------------------------------- properties
Ids == DOMAIN heap

AllInitialised == Cardinality(Ids) = Len(agents)

\* The position the agent with pointer a has in the vector.
PositionOf(a) == CHOOSE k \in 1..Len(agents) : agents[k] = a

InLoop == pc \in {"shuffle", "calc_prevalence", "events", "report"}

AfterLoop == pc \in {"summary_end", "destroy_agents", "done"}

\* simulate() has read its parameters (TIME_STEP is positive).
Entered == sim.time_step > 0

InfectedCount == Cardinality({a \in Ids : heap[a].hiv > 0})

Member(x, seq) == \E k \in 1..Len(seq) : seq[k] = x

\* C1: across every step of the run (each per-agent event, each shuffle,
\* prevalence computation and report), no agent's hiv stage is lower after
\* the step than before it.
C1_HivNeverDecreases ==
  [][\A a \in Ids : heap'[a].hiv >= heap[a].hiv]_vars

\* C1 witness: the run has ended, and between the two summaries one agent
\* left stage 0 and one entered stage 2.
C1_Witness ==
  /\ pc = "done"
  /\ summaries[2][0] < summaries[1][0]
  /\ summaries[2][2] > summaries[1][2]

\* C2: every agent has been aged by TIME_STEP exactly once in each finished
\* iteration, and in the running iteration exactly the agents the inner
\* loop has passed have been aged once more: age = initial age + k *
\* TIME_STEP after k iterations, whatever the vector order.
C2_AgedOncePerIteration ==
  \A a \in Ids :
    LET passedBy == \/ pc = "report"
                    \/ pc = "events" /\ PositionOf(a) < idx
    IN heap[a].age =
         initial_age[a] + sim.time_step * (i + IF passedBy THEN 1 ELSE 0)

\* C2 witness: two iterations are done on two agents, the vector is in
\* the reverse of its initial order, and both agents have aged twice.
C2_Witness ==
  /\ pc = "summary_end" /\ i = 2
  /\ Len(agents) = 2 /\ agents[1] = 1 /\ agents[2] = 0
  /\ \A a \in Ids : heap[a].age = initial_age[a] + 2 * sim.time_step

ZeroRisk ==
  /\ Has("MEAN_RISK_HET_MALE_SEX") /\ At("MEAN_RISK_HET_MALE_SEX") = 0
  /\ Has("MEAN_RISK_HET_FEMALE_SEX") /\ At("MEAN_RISK_HET_FEMALE_SEX") = 0

\* C4: with both mean risks 0, the number of infected agents stays what the
\* "begin" summary counted after initialisation, whatever is drawn.
C4_ZeroRiskNoInfection ==
  (ZeroRisk /\ Len(summaries) >= 1) =>
    InfectedCount = Len(agents) - summaries[1][0]

\* C4 witness: with both mean risks 0, two timesteps have passed over an
\* uninfected agent whose partner-forming attribute is 1 while the only
\* agent of the other sex is infected (prevalence 1).
C4_Witness ==
  /\ ZeroRisk /\ pc = "summary_end" /\ i = 2
  /\ \E a, b \in Ids :
       /\ heap[a].hiv = 0 /\ heap[a].partner_forming_attribute = Q
       /\ heap[b].hiv > 0 /\ heap[b].sex # heap[a].sex

\* C5 as first stated (for a run whose map lacks no key): in each timestep
\* calc_prevalence is evaluated exactly once, and every agent is passed
\* the same values.
C5_OnceAndSame ==
  absent = {} =>
    /\ (i >= 1 /\ pc \in {"shuffle", "summary_end"}) => calls = 1
    /\ \A k \in 1..Len(passed) :
         passed[k] = <<p.male_prevalence, p.female_prevalence>>

\* C5 amended: in each timestep calc_prevalence is evaluated once after
\* the shuffle and before any agent's event, on the agents as they then
\* are, and once more inside report() after the last agent's events; every
\* agent of the timestep is passed the values of the first evaluation.
C5_OnceBeforeEventsAndSame ==
  /\ (pc = "calc_prevalence") => (calls = 0 /\ passed = << >>)
  /\ (pc \in {"events", "report"}) => calls = 1
  /\ (pc = "events" /\ idx = 1 /\ ev = "infection") =>
       p = calc_prevalence(agents, heap)
  /\ (i >= 1 /\ pc \in {"shuffle", "summary_end"}) => calls = 2
  /\ \A k \in 1..Len(passed) :
       passed[k] = <<p.male_prevalence, p.female_prevalence>>

\* C5 witness: both agents of a timestep have had their infection event,
\* the first one became infected in it, so the prevalence of its sex is
\* no longer the one the second agent was passed.
C5_Witness ==
  /\ pc = "events" /\ Len(passed) = 2
  /\ heap[agents[1]].hiv = 1
  /\ calc_prevalence(agents, heap) # p

\* NUM_YEARS / TIME_STEP truncated: the k with k * TIME_STEP <= NUM_YEARS
\* < (k + 1) * TIME_STEP.
Truncated(num_years, time_step) ==
  CHOOSE k \in 0..num_years :
    k * time_step <= num_years /\ num_years < (k + 1) * time_step

\* Steps simulate() still has to take: a timestep is the shuffle, the
\* prevalence, three events per agent and the report.
EventNumber ==
  CASE ev = "infection" -> 0 [] ev = "stage_advance" -> 1
    [] ev = "age" -> 2 [] OTHER -> 0

StepsLeft ==
  LET T == 3 * Len(agents) + 3
      whole == (sim.num_iterations - i) * T
  IN CASE pc = "shuffle" -> whole
       [] pc = "calc_prevalence" -> whole - 1
       [] pc = "events" -> whole - 2 - 3 * (idx - 1) - EventNumber
       [] pc = "report" -> whole - 2 - 3 * Len(agents)
       [] OTHER -> 0

C6_Counts ==
  LET n == Truncated(At("NUM_YEARS"), At("TIME_STEP"))
  IN /\ (Entered /\ InLoop) =>
          /\ i < n
          /\ Len(rows) = 1 + i
          /\ StepsLeft > 0
          /\ ENABLED Next
     /\ (Entered /\ AfterLoop) =>
          /\ i = n
          /\ Len(rows) = 1 + n
          /\ \A k \in 1..n :
               rows[1 + k] = sim.start_date + sim.time_step * (k - 1)
     /\ (pc = "done" /\ At("NUM_YEARS") = 0) =>
          /\ Len(rows) = 1
          /\ summaries[1] = summaries[2]

\* C6: simulate() leaves its loop after exactly NUM_YEARS / TIME_STEP
\* (truncated) timesteps with one report row written per timestep: inside
\* the loop a step is always possible and every step lowers the number of
\* steps left; with NUM_YEARS = 0 no row is written after the initial one
\* and the "begin" and "end" summaries count the same stages.
C6_Terminates ==
  /\ []C6_Counts
  /\ [][(Entered /\ InLoop) => StepsLeft' < StepsLeft]_vars

\* C6 witness: the run is done after two timesteps of a two-agent
\* population, with the initial row and two more rows written.
C6_Witness ==
  /\ pc = "done" /\ i = 2 /\ Len(rows) = 3 /\ Len(agents) = 2
  /\ At("NUM_YEARS") = 2 /\ At("TIME_STEP") = 1

NoneAlive(s) == \A a \in Ids : ~(heap[a].alive /\ heap[a].sex = s)

\* C7: when no agent of a sex is alive, the prevalence of that sex computed
\* for the timestep is NaN, the run is not terminated, a step stays
\* possible until the loop is left, and the loop is left only after all
\* num_iterations timesteps.
C7_EmptySexGivesNaN ==
  \A s \in {MALE, FEMALE} :
    (Entered /\ NoneAlive(s)) =>
      /\ pc # "aborted"
      /\ (pc \in {"events", "report"}) =>
           IsNaN(IF s = MALE THEN p.male_prevalence ELSE p.female_prevalence)
      /\ InLoop => ENABLED Next
      /\ AfterLoop => i = sim.num_iterations

\* C7 witness: a population of two females has been through two timesteps
\* with a NaN male prevalence and the run is done.
C7_Witness ==
  /\ pc = "done" /\ i = 2 /\ Len(agents) = 2
  /\ NoneAlive(MALE)
  /\ IsNaN(p.male_prevalence)

\* C8 as stated: when a required key was absent from the map, no timestep
\* is executed and no agent event is applied.
C8_AbsentKeyAborts ==
  absent # {} => (~InLoop /\ i = 0 /\ pc # "done")

\* C10 as stated: after one iteration on a population of one male and one
\* female whose partner-forming attributes are 1, each is in the other's
\* partner vector.
C10_PairIsPartnered ==
  ( /\ Len(agents) = 2 /\ AllInitialised
    /\ heap[0].sex # heap[1].sex
    /\ \A a \in Ids : heap[a].partner_forming_attribute = Q
    /\ i >= 1 /\ pc \in {"shuffle", "summary_end"} ) =>
      /\ Member(1, heap[0].partners)
      /\ Member(0, heap[1].partners)

\* The agent the inner loop is at.
Current == agents[idx]

\* C11: hiv stays within 0..MAX_STAGE, and a step changes an agent's stage
\* only as 0 -> 1 in that agent's simple_infection_event or as 1 -> 2 in
\* its stage_advance_event: a stage of 2..5 never changes and no stage of
\* 3..5 is entered after init().
C11_OnlyInfectionAndAdvance ==
  /\ [](\A a \in Ids : heap[a].hiv \in 0..MAX_STAGE)
  /\ [][\A a \in Ids :
          heap'[a].hiv # heap[a].hiv =>
            /\ pc = "events" /\ a = Current
            /\ \/ ev = "infection" /\ heap[a].hiv = 0 /\ heap'[a].hiv = 1
               \/ ev = "stage_advance" /\ heap[a].hiv = 1 /\ heap'[a].hiv = 2]_vars

\* C11 witness: after two timesteps with a positive probability of leaving
\* the acute stage, one agent is still at stage 4 and the other is at
\* stage 2, which no agent had at the "begin" summary.
C11_Witness ==
  /\ pc = "done" /\ i = 2 /\ sim.prob_leave_acute_infection > 0
  /\ summaries[1][2] = 0 /\ summaries[1][4] = 1
  /\ \E a, b \in Ids : heap[a].hiv = 4 /\ heap[b].hiv = 2

====
